---- MODULE Spec2Model ----
(***************************************************************************)
(* page-notifier: a poll loop that fetches one web page, extracts a DOM    *)
(* subtree, normalizes it to text, compares it with the stored baseline    *)
(* and notifies a Discord webhook when the text changed.                   *)
(*                                                                         *)
(* Strings are sequences of one-character strings, so that strip, join and *)
(* comparison are computed.  An optional value (Python's "x | None") is a  *)
(* sequence of length 0 (None) or 1 (the value).                           *)
(***************************************************************************)
EXTENDS Integers, Sequences, FiniteSets, TLC

VARIABLES
    pc,                 \* where ChangeDetector.run is suspended
    element_selector,   \* self._element_selector, as split at "|"
    reload_time_ms,     \* self._reload_time_ms
    notifier,           \* self._notifier is not None
    notifier_session,   \* DiscordNotifier._session: "none" | "open" | "closed"
    http_session,       \* the AsyncSession of run: "none" | "open" | "closed"
    previous_content,   \* self._previous_content (optional text)
    last_request_time,  \* self._last_request_time (optional cycle number)
    success_count,      \* self._success_count
    error_count,        \* self._error_count
    html_content,       \* _check_for_changes: html_content (optional document)
    normalized_content, \* _check_for_changes: normalized_content (optional text)
    old_content,        \* _check_for_changes: old_content (optional text)
    changed,            \* run: changed (optional boolean)
    diff,               \* _notify_change: diff handed to send_notification
    random_offset,      \* _get_wait_time_ms: random_offset (optional, fixed point)
    wait_time,          \* run: the value of _get_wait_time_ms() (optional, ms)
    cancelled,          \* the task was cancelled / interrupted
    cycles,             \* history: calls of _check_for_changes so far
    trace,              \* history: the stages the current cycle has run
    baseline_before,    \* history: self._previous_content when the cycle began
    previous_html,      \* history: html_content of the cycle before (optional)
    gets_outstanding,   \* history: HTTP GETs in flight
    gets_in_cycle,      \* history: HTTP GETs issued by the current cycle
    sends,              \* history: send_notification calls so far
    sends_in_cycle,     \* history: send_notification calls of the current cycle
    ok_cycles,          \* history: cycles whose fetch and extraction succeeded
    notify_failed,      \* history: the previous attempt to notify failed
    webhook_url,        \* settings.WEBHOOK_DISCORD
    url,                \* self._url, as its characters
    max_lines,          \* _generate_diff: max_lines
    diff_lines,         \* _generate_diff: diff_lines before the join (optional)
    field_value,        \* send_notification: "value" of the Diff field (optional)
    extracted,          \* the outcome of extract_element (optional)
    log,                \* history: the log records of the current cycle
    http_opens,         \* history: AsyncSession objects entered
    http_closes,        \* history: AsyncSession objects closed
    session_opens,      \* history: aiohttp.ClientSession objects created
    session_closes,     \* history: calls of aiohttp.ClientSession.close
    close_calls,        \* history: calls of DiscordNotifier.close
    fetch_failures,     \* history: cycles whose GET failed
    extract_failures,   \* history: cycles whose extraction raised ValueError
    exit_code           \* the exit status of the process (optional)

vars == << pc, element_selector, reload_time_ms, notifier, notifier_session,
           http_session, previous_content, last_request_time, success_count,
           error_count, html_content, normalized_content, old_content, changed,
           diff, random_offset, wait_time, cancelled, cycles, trace,
           baseline_before, previous_html, gets_outstanding, gets_in_cycle,
           sends, sends_in_cycle, ok_cycles, notify_failed, webhook_url, url,
           max_lines, diff_lines, field_value, extracted, log, http_opens,
           http_closes, session_opens, session_closes, close_calls,
           fetch_failures, extract_failures, exit_code >>

\* The settings and arguments no step of the loop assigns.
settings == << element_selector, reload_time_ms, notifier, webhook_url, url,
              max_lines >>

\* The history of the two sessions and of the process.
resources == << http_opens, http_closes, session_opens, session_closes,
               close_calls, exit_code >>

\* The history of the failures counted.
failures == << fetch_failures, extract_failures >>

(***************************************************************************)
(* Bounds of the model.                                                    *)
(***************************************************************************)
\* Cycles the loop may start (the loop of the code is unbounded).
MaxCycles == 3

\* Jitter samples are k * JitterStep / Scale milliseconds, |k| <= MaxJitter.
MaxJitter == 8

\* Lines of the texts _generate_diff is given on its own.
MaxTextLines == 3

\* Segments of the selector paths extract_element is given on its own.
MaxSegments == 3

\* Calls of send_notification, and of close, on a notifier used on its own.
MaxCalls == 6

(***************************************************************************)
(* Optional values.                                                        *)
(***************************************************************************)
None == << >>

Some(x) == << x >>

Get(o) == o[1]

(***************************************************************************)
(* Documents.  A document is the sequence of top-level nodes html.parser   *)
(* builds; a node is a text node or an element with its attributes and     *)
(* children.                                                               *)
(***************************************************************************)
Text(s) ==
    [kind |-> "text", text |-> s, tag |-> "", id |-> "", type |-> "",
     value |-> "", kids |-> << >>]

Elem(tag, id, type, value, kids) ==
    [kind |-> "elem", text |-> << >>, tag |-> tag, id |-> id, type |-> type,
     value |-> value, kids |-> kids]

IsElem(n) == n.kind = "elem"

IsText(n) == n.kind = "text"

\* Python str.strip() on a string over the letters and " ".
RECURSIVE lstrip(_)
lstrip(s) ==
    IF s = << >> THEN << >>
    ELSE IF Head(s) = " " THEN lstrip(Tail(s)) ELSE s

RECURSIVE rstrip(_)
rstrip(s) ==
    IF s = << >> THEN << >>
    ELSE IF s[Len(s)] = " " THEN rstrip(SubSeq(s, 1, Len(s) - 1)) ELSE s

strip(s) == rstrip(lstrip(s))

\* str.join: the pieces with sep between them.
RECURSIVE join(_, _)
join(sep, pieces) ==
    IF pieces = << >> THEN << >>
    ELSE IF Len(pieces) = 1 THEN pieces[1]
    ELSE pieces[1] \o sep \o join(sep, Tail(pieces))

\* BeautifulSoup(markup, "html.parser") of the markup of a tree: the tree, with
\* neighbouring text nodes read as one text node.
RECURSIVE BeautifulSoup(_)
BeautifulSoup(nodes) ==
    IF nodes = << >> THEN << >>
    ELSE LET n == Head(nodes)
             rest == BeautifulSoup(Tail(nodes))
         IN  IF IsElem(n)
             THEN << [n EXCEPT !.kids = BeautifulSoup(n.kids)] >> \o rest
             ELSE IF rest # << >> /\ IsText(Head(rest))
                  THEN << Text(n.text \o Head(rest).text) >> \o Tail(rest)
                  ELSE << n >> \o rest

\* The descendants of a sequence of sibling nodes, in document order.
RECURSIVE descendants(_)
descendants(nodes) ==
    IF nodes = << >> THEN << >>
    ELSE << Head(nodes) >> \o descendants(Head(nodes).kids)
                           \o descendants(Tail(nodes))

\* for hidden_element in soup.find_all(attrs={"type": "hidden"}):
\*     hidden_element.decompose()
\* The elements go with their subtrees; the text nodes around them stay apart.
RECURSIVE decompose_hidden(_)
decompose_hidden(nodes) ==
    IF nodes = << >> THEN << >>
    ELSE LET n == Head(nodes)
             rest == decompose_hidden(Tail(nodes))
         IN  IF IsElem(n) /\ n.type = "hidden" THEN rest
             ELSE IF IsElem(n)
                  THEN << [n EXCEPT !.kids = decompose_hidden(n.kids)] >> \o rest
                  ELSE << n >> \o rest

\* soup._all_strings(strip=True): every text node stripped, the empty ones dropped.
RECURSIVE stripped_strings(_)
stripped_strings(ds) ==
    IF ds = << >> THEN << >>
    ELSE LET n == Head(ds)
             rest == stripped_strings(Tail(ds))
         IN  IF IsText(n) /\ strip(n.text) # << >>
             THEN << strip(n.text) >> \o rest
             ELSE rest

get_text(nodes) == join(<< " " >>, stripped_strings(descendants(nodes)))

normalize_html(markup) == get_text(decompose_hidden(BeautifulSoup(markup)))

(***************************************************************************)
(* extract_element.  A selector path is the list str.split("|") gives: one *)
(* raw segment per piece, each a string over " " and the selector tokens.  *)
(* The selectors of the model are id selectors, one token each.            *)
(***************************************************************************)
SelectorId == [s \in {"#a", "#b", "#c"} |-> CASE s = "#a" -> "a"
                                              [] s = "#b" -> "b"
                                              [] s = "#c" -> "c"]

\* found = current_element.select_one(selector): the first descendant that
\* matches, as an optional node.
Matches(n, selector) ==
    /\ IsElem(n)
    /\ Len(selector) = 1
    /\ selector[1] \in DOMAIN SelectorId
    /\ n.id = SelectorId[selector[1]]

RECURSIVE first_match(_, _)
first_match(ds, selector) ==
    IF ds = << >> THEN None
    ELSE IF Matches(Head(ds), selector) THEN Some(Head(ds))
    ELSE first_match(Tail(ds), selector)

select_one(nodes, selector) == first_match(descendants(nodes), selector)

\* soup.find("body")
RECURSIVE first_tag(_, _)
first_tag(ds, tag) ==
    IF ds = << >> THEN None
    ELSE IF IsElem(Head(ds)) /\ Head(ds).tag = tag THEN Some(Head(ds))
    ELSE first_tag(Tail(ds), tag)

\* not selector_path or selector_path.strip() == ""
IsBlankPath(selector_path) ==
    Len(selector_path) = 1 /\ strip(selector_path[1]) = << >>

\* [s.strip() for s in selector_path.split("|") if s.strip()]
RECURSIVE split_selectors(_)
split_selectors(selector_path) ==
    IF selector_path = << >> THEN << >>
    ELSE LET s == strip(Head(selector_path))
         IN  (IF s = << >> THEN << >> ELSE << s >>)
                 \o split_selectors(Tail(selector_path))

Found(markup) ==
    [ok |-> TRUE, markup |-> markup, selector |-> << >>, path |-> << >>]

\* ValueError(f"Element not found for selector '{selector}' in path '{selector_path}'")
NotFound(selector, selector_path) ==
    [ok |-> FALSE, markup |-> << >>, selector |-> selector, path |-> selector_path]

\* descend, were every selector looked up from the same element as the first.
RECURSIVE DescendFromRoot(_, _, _, _)
DescendFromRoot(scope, markup, selectors, selector_path) ==
    IF selectors = << >> THEN Found(markup)
    ELSE LET found == select_one(scope, Head(selectors))
         IN  IF found = None THEN NotFound(Head(selectors), selector_path)
             ELSE DescendFromRoot(scope, << Get(found) >>, Tail(selectors),
                                  selector_path)

\* The loop over the selectors: scope is the children of current_element,
\* markup is str(current_element).
RECURSIVE descend(_, _, _, _)
descend(scope, markup, selectors, selector_path) ==
    IF selectors = << >> THEN Found(markup)
    ELSE LET found == select_one(scope, Head(selectors))
         IN  IF found = None THEN NotFound(Head(selectors), selector_path)
             ELSE descend(Get(found).kids, << Get(found) >>, Tail(selectors),
                          selector_path)

extract_element(html, selector_path) ==
    LET soup == BeautifulSoup(html)
    IN  IF IsBlankPath(selector_path)
        THEN LET body == first_tag(descendants(soup), "body")
             IN  IF body = None THEN Found(html) ELSE Found(<< Get(body) >>)
        ELSE descend(soup, soup, split_selectors(selector_path), selector_path)

(***************************************************************************)
(* _generate_diff.  A diff line is a string; the fixed parts of the header *)
(* lines are single tokens.                                                *)
(***************************************************************************)
\* str.splitlines(keepends=True), for the line end "\n".
RECURSIVE splitlines_from(_, _)
splitlines_from(s, line) ==
    IF s = << >> THEN (IF line = << >> THEN << >> ELSE << line >>)
    ELSE IF Head(s) = "\n"
         THEN << line \o << "\n" >> >> \o splitlines_from(Tail(s), << >>)
         ELSE splitlines_from(Tail(s), line \o << Head(s) >>)

splitlines(s) == splitlines_from(s, << >>)

\* difflib._format_range_unified(start, stop)
format_range_unified(start, stop) ==
    LET length == stop - start
        beginning == start + 1
    IN  IF length = 1 THEN << ToString(beginning) >>
        ELSE << ToString(IF length = 0 THEN beginning - 1 ELSE beginning),
                ",", ToString(length) >>

Prefixed(sign, lines) == [i \in 1..Len(lines) |-> << sign >> \o lines[i]]

\* Indices are those of the code: a[i] is At(a, i), a[i:j] is Slice(a, i, j).
At(s, i) == s[i + 1]

Slice(s, i, j) == SubSeq(s, i + 1, j)

min(a, b) == IF b < a THEN b ELSE a

max(a, b) == IF b > a THEN b ELSE a

\* The length of the longest common run of a[i:ahi] and b[j:bhi] from (i, j).
RECURSIVE MatchLen(_, _, _, _, _, _)
MatchLen(a, b, i, j, ahi, bhi) ==
    IF i < ahi /\ j < bhi /\ At(a, i) = At(b, j)
    THEN 1 + MatchLen(a, b, i + 1, j + 1, ahi, bhi)
    ELSE 0

\* find_longest_match prefers the block of size sp at p to the one of size sq
\* at q: the longer one; of two as long the one that starts earlier in a,
\* then in b.
preferred(sp, sq, p, q) ==
    \/ sp > sq
    \/ sp = sq /\ p[1] < q[1]
    \/ sp = sq /\ p[1] = q[1] /\ p[2] <= q[2]

\* return Match(besti, bestj, bestsize); (alo, blo, 0) when nothing matches.
as_match(alo, blo, p, size) ==
    IF size = 0 THEN << alo, blo, 0 >> ELSE << p[1], p[2], size >>

\* The block find_longest_match settles on, among those that start in starts.
best_start(a, b, ahi, bhi, starts) ==
    CHOOSE p \in starts :
        \A q \in starts :
            preferred(MatchLen(a, b, p[1], p[2], ahi, bhi),
                      MatchLen(a, b, q[1], q[2], ahi, bhi), p, q)

longest_from(a, b, alo, ahi, blo, bhi, p) ==
    as_match(alo, blo, p, MatchLen(a, b, p[1], p[2], ahi, bhi))

\* SequenceMatcher.find_longest_match(alo, ahi, blo, bhi) with no junk: the
\* longest block; of those the one that starts earliest in a, then in b.
find_longest_match(a, b, alo, ahi, blo, bhi) ==
    IF alo >= ahi \/ blo >= bhi THEN << alo, blo, 0 >>
    ELSE longest_from(a, b, alo, ahi, blo, bhi,
                      best_start(a, b, ahi, bhi,
                                 (alo..(ahi - 1)) \X (blo..(bhi - 1))))

\* SequenceMatcher.get_matching_blocks: the longest block x of a range, then
\* the blocks to its left and to its right, in order.
RECURSIVE matching_blocks_in(_, _, _, _, _, _)
matching_blocks_around(a, b, alo, ahi, blo, bhi, x) ==
    IF x[3] = 0 THEN << >>
    ELSE (IF alo < x[1] /\ blo < x[2]
          THEN matching_blocks_in(a, b, alo, x[1], blo, x[2]) ELSE << >>)
         \o << x >>
         \o (IF x[1] + x[3] < ahi /\ x[2] + x[3] < bhi
             THEN matching_blocks_in(a, b, x[1] + x[3], ahi, x[2] + x[3], bhi)
             ELSE << >>)

matching_blocks_in(a, b, alo, ahi, blo, bhi) ==
    matching_blocks_around(a, b, alo, ahi, blo, bhi,
                           find_longest_match(a, b, alo, ahi, blo, bhi))

\* get_matching_blocks: adjacent blocks are merged.
RECURSIVE non_adjacent(_, _)
non_adjacent(blocks, cur) ==
    IF blocks = << >> THEN (IF cur[3] > 0 THEN << cur >> ELSE << >>)
    ELSE LET x == Head(blocks)
         IN  IF cur[1] + cur[3] = x[1] /\ cur[2] + cur[3] = x[2]
             THEN non_adjacent(Tail(blocks),
                               << cur[1], cur[2], cur[3] + x[3] >>)
             ELSE (IF cur[3] > 0 THEN << cur >> ELSE << >>)
                  \o non_adjacent(Tail(blocks), x)

get_matching_blocks(a, b) ==
    non_adjacent(matching_blocks_in(a, b, 0, Len(a), 0, Len(b)), << 0, 0, 0 >>)
        \o << << Len(a), Len(b), 0 >> >>

\* SequenceMatcher.get_opcodes: << tag, i1, i2, j1, j2 >>.
RECURSIVE opcodes_from(_, _, _)
opcodes_from(blocks, i, j) ==
    IF blocks = << >> THEN << >>
    ELSE LET ai == Head(blocks)[1]
             bj == Head(blocks)[2]
             size == Head(blocks)[3]
             tag == IF i < ai /\ j < bj THEN "replace"
                    ELSE IF i < ai THEN "delete"
                    ELSE IF j < bj THEN "insert"
                    ELSE ""
         IN  (IF tag # "" THEN << << tag, i, ai, j, bj >> >> ELSE << >>)
             \o (IF size > 0
                 THEN << << "equal", ai, ai + size, bj, bj + size >> >>
                 ELSE << >>)
             \o opcodes_from(Tail(blocks), ai + size, bj + size)

get_opcodes(a, b) == opcodes_from(get_matching_blocks(a, b), 0, 0)

\* get_grouped_opcodes: the loop over the codes, group being the open group.
RECURSIVE groups_from(_, _, _)
groups_from(codes, group, n) ==
    IF codes = << >>
    THEN (IF group # << >> /\ ~(Len(group) = 1 /\ group[1][1] = "equal")
          THEN << group >> ELSE << >>)
    ELSE LET c == Head(codes)
             i1 == c[2]
             i2 == c[3]
             j1 == c[4]
             j2 == c[5]
         IN  IF c[1] = "equal" /\ i2 - i1 > n + n
             THEN << group \o << << "equal", i1, min(i2, i1 + n),
                                    j1, min(j2, j1 + n) >> >> >>
                  \o groups_from(Tail(codes),
                                 << << "equal", max(i1, i2 - n), i2,
                                       max(j1, j2 - n), j2 >> >>, n)
             ELSE groups_from(Tail(codes), group \o << c >>, n)

\* codes = self.get_opcodes(); if not codes: codes = [("equal", 0, 1, 0, 1)]
some_codes(codes) ==
    IF codes = << >> THEN << << "equal", 0, 1, 0, 1 >> >> ELSE codes

\* "Fixup leading and trailing groups if they show no changes."
fixup_leading(codes, n) ==
    IF codes[1][1] = "equal"
    THEN << << "equal", max(codes[1][2], codes[1][3] - n), codes[1][3],
               max(codes[1][4], codes[1][5] - n), codes[1][5] >> >>
         \o Tail(codes)
    ELSE codes

fixup_trailing(codes, n) ==
    IF codes[Len(codes)][1] = "equal"
    THEN SubSeq(codes, 1, Len(codes) - 1)
         \o << << "equal", codes[Len(codes)][2],
                  min(codes[Len(codes)][3], codes[Len(codes)][2] + n),
                  codes[Len(codes)][4],
                  min(codes[Len(codes)][5], codes[Len(codes)][4] + n) >> >>
    ELSE codes

\* SequenceMatcher.get_grouped_opcodes(n)
get_grouped_opcodes(a, b, n) ==
    groups_from(fixup_trailing(fixup_leading(some_codes(get_opcodes(a, b)), n),
                               n),
                << >>, n)

\* unified_diff: the lines of one opcode.
opcode_lines(a, b, c) ==
    IF c[1] = "equal" THEN Prefixed(" ", Slice(a, c[2], c[3]))
    ELSE (IF c[1] \in {"replace", "delete"}
          THEN Prefixed("-", Slice(a, c[2], c[3])) ELSE << >>)
         \o (IF c[1] \in {"replace", "insert"}
             THEN Prefixed("+", Slice(b, c[4], c[5])) ELSE << >>)

RECURSIVE group_lines(_, _, _)
group_lines(a, b, group) ==
    IF group = << >> THEN << >>
    ELSE opcode_lines(a, b, Head(group)) \o group_lines(a, b, Tail(group))

\* unified_diff: the hunk header and the lines of one group.
hunk(a, b, group) ==
    << << "@@ -" >>
          \o format_range_unified(group[1][2], group[Len(group)][3])
          \o << " +" >>
          \o format_range_unified(group[1][4], group[Len(group)][5])
          \o << " @@" >> >>
    \o group_lines(a, b, group)

RECURSIVE hunks(_, _, _)
hunks(a, b, groups) ==
    IF groups = << >> THEN << >>
    ELSE hunk(a, b, Head(groups)) \o hunks(a, b, Tail(groups))

\* unified_diff: the two header lines come before the first hunk, if any.
with_header(lines) ==
    IF lines = << >> THEN << >>
    ELSE << << "--- ", "Previous" >>, << "+++ ", "Current" >> >> \o lines

\* difflib.unified_diff(a, b, fromfile="Previous", tofile="Current",
\* lineterm="", n=2), as a list.
unified_diff(a, b) == with_header(hunks(a, b, get_grouped_opcodes(a, b, 2)))

\* f"\n... (truncated, showing first {max_lines} lines)"
truncation_marker(lines) ==
    << "\n", "... (truncated, showing first ", ToString(lines), " lines)" >>

\* truncate, were the cut one line late.
TruncateOneLate(lines, limit) ==
    IF Len(lines) > limit
    THEN SubSeq(lines, 1, limit + 1) \o << truncation_marker(limit) >>
    ELSE lines

\* if len(diff_lines) > max_lines: diff_lines = diff_lines[:max_lines];
\* diff_lines.append(marker)
truncate(lines, limit) ==
    IF Len(lines) > limit
    THEN SubSeq(lines, 1, limit) \o << truncation_marker(limit) >>
    ELSE lines

\* _generate_diff: diff_lines as it is joined.
generated_lines(old, new, limit) ==
    truncate(unified_diff(splitlines(old), splitlines(new)), limit)

_generate_diff(old, new, limit) == join(<< >>, generated_lines(old, new, limit))

\* max_lines: int = 30
DefaultMaxLines == 30

(***************************************************************************)
(* DiscordNotifier: the Diff field of the embed, and the aiohttp session.  *)
(***************************************************************************)
\* "Discord has a limit of 1024 characters per field value"
DiscordFieldLimit == 1024

\* diff_value = diff if len(diff) <= 1024 else diff[:1021] + "..."
diff_value(d) ==
    IF Len(d) <= 1024 THEN d ELSE SubSeq(d, 1, 1021) \o << ".", ".", "." >>

\* The grave accent (U+0060), which a string of TLA+ cannot hold: one character.
Grave == "GRAVE"

\* "value": the f-string of three grave accents, "diff\n", diff_value, "\n" and
\* three grave accents
diff_field(d) ==
    << Grave, Grave, Grave, "d", "i", "f", "f", "\n" >> \o diff_value(d)
        \o << "\n", Grave, Grave, Grave >>

\* _get_session: a session is created when there is none or it is closed.
_get_session(session) ==
    [session |-> "open",
     opened |-> IF session \in {"none", "closed"} THEN 1 ELSE 0]

\* close, were the session closed whatever its state.
CloseUnguarded(session) == [session |-> "none", closed |-> 1]

\* DiscordNotifier.close: if self._session and not self._session.closed:
\* await self._session.close(); self._session = None
close(session) ==
    IF session = "open" THEN [session |-> "none", closed |-> 1]
    ELSE [session |-> session, closed |-> 0]

(***************************************************************************)
(* _extract_hostname: urlparse raises ValueError ("Invalid IPv6 URL") when *)
(* the network location has one bracket without the other.                 *)
(***************************************************************************)
Member(c, s) == \E i \in 1..Len(s) : s[i] = c

\* The characters of s before the first one in stops.
RECURSIVE until(_, _)
until(s, stops) ==
    IF s = << >> \/ Head(s) \in stops THEN << >>
    ELSE << Head(s) >> \o until(Tail(s), stops)

\* urlsplit: the network location follows "//" and ends at "/", "?" or "#".
RECURSIVE netloc(_)
netloc(u) ==
    IF Len(u) < 2 THEN << >>
    ELSE IF u[1] = "/" /\ u[2] = "/" THEN until(Tail(Tail(u)), {"/", "?", "#"})
    ELSE netloc(Tail(u))

urlparse_raises(u) ==
    \/ Member("[", netloc(u)) /\ ~Member("]", netloc(u))
    \/ Member("]", netloc(u)) /\ ~Member("[", netloc(u))

\* try: return urlparse(url).hostname / except Exception: return None
\* (the URLs of the model have no user, no port and no capital letter)
_extract_hostname(u) ==
    IF urlparse_raises(u) \/ netloc(u) = << >> THEN None ELSE Some(netloc(u))

(***************************************************************************)
(* main: asyncio.run(async_main()) under "except KeyboardInterrupt:        *)
(* sys.exit(0)"; any other exception leaves main and the status is 1.      *)
(***************************************************************************)
\* except KeyboardInterrupt: sys.exit(0)
exit_status(raised) == IF raised = "KeyboardInterrupt" THEN 0 ELSE 1

\* has_notifier, were a notifier made whatever the webhook URL.
HasNotifierAlways(hook) == TRUE

\* if webhook_url: self._notifier = DiscordNotifier(webhook_url)
has_notifier(hook) == hook # ""

(***************************************************************************)
(* _get_wait_time_ms.  Floats are fixed point: Scale units to the          *)
(* millisecond.                                                            *)
(***************************************************************************)
Scale == 10

\* int(x) of a float: towards zero.
int(x) == IF x >= 0 THEN x \div Scale ELSE -((-x) \div Scale)

\* _get_wait_time_ms without the floor of 100 ms.
GetWaitTimeNoFloor(base_time, offset) == int(base_time * Scale + offset)

\* wait_time = max(100, base_time + random_offset); return int(wait_time)
_get_wait_time_ms(base_time, offset) ==
    int(max(100 * Scale, base_time * Scale + offset))

(***************************************************************************)
(* The inputs of the model: response bodies, selector paths, jitter.       *)
(***************************************************************************)
Hello == << "H", "i" >>

Goodbye == << "Y", "o" >>

Body(kids) == Elem("body", "", "", "", kids)

P(kids) == Elem("p", "", "", "", kids)

Div(id, kids) == Elem("div", id, "", "", kids)

\* <input type="hidden" value="v">
Hidden(v) == Elem("input", "", "hidden", v, << >>)

Pages ==
    { << Body(<< P(<< Text(Hello) >>) >>) >>,
      << Body(<< P(<< Text(Hello) >>), Hidden("x") >>) >>,
      << Body(<< P(<< Text(Hello) >>), Hidden("y") >>) >>,
      << Body(<< P(<< Text(Goodbye) >>) >>) >>,
      << Body(<< P(<< Text(<< "H" >>), Hidden("x"), Text(<< "i" >>) >>) >>) >>,
      << Body(<< Elem("div", "", "hidden", "", << P(<< Text(Goodbye) >>) >>),
                 P(<< Text(Hello) >>) >>) >>,
      << Body(<< Div("a", << Text(Hello), Div("b", << Text(Goodbye) >>) >>) >>) >>,
      << Body(<< Div("a", << Text(Hello) >>), Text(<< " " >>),
                 Div("b", << Text(Goodbye) >>) >>) >>,
      << Body(<< Text(<< " " >>) >>) >>,
      << P(<< Text(<< " ", "H", "i", " " >>) >>) >> }

\* "", "#a" and "#a| #b"
SelectorPaths ==
    { << << >> >>,
      << << "#a" >> >>,
      << << "#a" >>, << " ", "#b" >> >> }

\* WEBPAGE_RELOAD_TIME: the default, intervals around the floor of 100 ms and
\* a negative one (int() of the environment variable accepts it).
ReloadTimes == {-500, 0, 50, 100, 150, 300, 60000}

\* Samples of random.gauss(0, std), in 1/Scale ms: every 33.3 ms up to
\* MaxJitter steps either way, and one far below any interval.
JitterSamples ==
    {k * (33 * Scale + 3) : k \in -MaxJitter..MaxJitter} \cup {-100000 * Scale}

\* The samples the poll loop draws in the model: the least, none, the greatest.
LoopJitter ==
    {-100000 * Scale, 0, MaxJitter * (33 * Scale + 3)}

\* WEBPAGE_URL: a URL urlparse accepts, and one with a "[" in the user name,
\* which the HTTP client accepts and urlparse raises ValueError on.
Urls ==
    { << "h", ":", "/", "/", "e", "/", "p" >>,
      << "h", ":", "/", "/", "u", "[", "@", "e", "/", "p" >> }

\* WEBHOOK_DISCORD and WEBPAGE_URL: no webhook, or a webhook and either URL.
Deployments ==
    { << "", << "h", ":", "/", "/", "e", "/", "p" >> >> }
        \cup { << "hook", u >> : u \in Urls }

(***************************************************************************)
(* The state after ChangeDetector.__init__ (url is not empty).             *)
(***************************************************************************)
\* The attributes after __init__, and the history, before run is entered.
InitAttributes ==
    /\ pc = "init"
    /\ notifier_session = "none"
    /\ http_session = "none"
    /\ previous_content = None
    /\ last_request_time = None
    /\ success_count = 0
    /\ error_count = 0
    /\ changed = None
    /\ random_offset = None
    /\ wait_time = None
    /\ cancelled = FALSE
    /\ cycles = 0
    /\ trace = << >>
    /\ baseline_before = None
    /\ previous_html = None
    /\ gets_outstanding = 0
    /\ gets_in_cycle = 0
    /\ sends = 0
    /\ sends_in_cycle = 0
    /\ ok_cycles = 0
    /\ notify_failed = FALSE
    /\ log = << >>
    /\ http_opens = 0
    /\ http_closes = 0
    /\ session_opens = 0
    /\ session_closes = 0
    /\ close_calls = 0
    /\ fetch_failures = 0
    /\ extract_failures = 0
    /\ exit_code = None

\* No cycle has run: the locals of the cycle have no value.
InitState ==
    /\ InitAttributes
    /\ html_content = None
    /\ normalized_content = None
    /\ old_content = None
    /\ diff = None
    /\ max_lines = DefaultMaxLines
    /\ diff_lines = None
    /\ field_value = None
    /\ extracted = None

Init ==
    /\ InitState
    /\ element_selector \in SelectorPaths
    /\ reload_time_ms = 60000
    /\ \E deployment \in Deployments :
           /\ webhook_url = deployment[1]
           /\ url = deployment[2]
    /\ notifier = has_notifier(webhook_url)

(***************************************************************************)
(* The poll loop.  The task is suspended at its awaits only: the GET of    *)
(* _fetch_page, the POST of send_notification and asyncio.sleep.  An       *)
(* action is the code that runs from one await to the next.                *)
(***************************************************************************)
\* _check_for_changes up to "await session.get(self._url)".
BeginCycle ==
    /\ cycles' = cycles + 1
    /\ last_request_time' = Some(cycles + 1)
    /\ html_content' = None
    /\ normalized_content' = None
    /\ old_content' = None
    /\ changed' = None
    /\ diff' = None
    /\ diff_lines' = None
    /\ field_value' = None
    /\ extracted' = None
    /\ random_offset' = None
    /\ wait_time' = None
    /\ trace' = << "fetch" >>
    /\ log' = IF last_request_time = None THEN << >>
              ELSE << << "DEBUG", "time_since_last_request" >> >>
    /\ baseline_before' = previous_content
    /\ previous_html' = html_content
    /\ gets_outstanding' = gets_outstanding + 1
    /\ gets_in_cycle' = 1
    /\ sends_in_cycle' = 0
    /\ pc' = "fetching"
    /\ UNCHANGED << settings, failures, notifier_session, previous_content,
                    success_count, error_count, cancelled, sends, ok_cycles,
                    notify_failed, http_closes, session_opens, session_closes,
                    close_calls, exit_code >>

\* run: "changed = ..." is bound, then
\* wait_time = self._get_wait_time_ms() / 1000.0; await asyncio.sleep(wait_time)
Sleep(result, sample) ==
    /\ changed' = Some(result)
    /\ random_offset' = Some(sample)
    /\ wait_time' = Some(_get_wait_time_ms(reload_time_ms, sample))
    /\ pc' = "sleeping"

\* Comparator, were an empty baseline taken for no baseline ("if not ...").
ComparatorEmptyIsAbsent(previous, normalized) ==
    IF previous = None \/ Get(previous) = << >> THEN "first"
    ELSE IF normalized # Get(previous) THEN "changed"
    ELSE "same"

\* Comparator, were the first run to return before it stores the text.
ComparatorNeverStores(previous, normalized) ==
    IF previous = None THEN "same"
    ELSE IF normalized # Get(previous) THEN "changed"
    ELSE "same"

\* Comparator, were the texts compared by length.
ComparatorByLength(previous, normalized) ==
    IF previous = None THEN "first"
    ELSE IF Len(normalized) # Len(Get(previous)) THEN "changed"
    ELSE "same"

\* if self._previous_content is None / if normalized_content != self._previous_content
Comparator(previous, normalized) ==
    IF previous = None THEN "first"
    ELSE IF normalized # Get(previous) THEN "changed"
    ELSE "same"

\* CountExtraction, were the except block to log only.
CountExtractionForgets(errors, ok) == errors

\* except ValueError: self._error_count += 1 (extraction or normalization raised)
CountExtraction(errors, ok) == IF ok THEN errors ELSE errors + 1

\* CommitBaseline, were the assignment to follow the await of _notify_change.
CommitBaselineLate(old, new) == Some(old)

\* self._previous_content = normalized_content, before _notify_change is awaited
CommitBaseline(old, new) == Some(new)

\* ChangeDetector.run entered: the session is opened and the first cycle begins.
Run ==
    /\ pc = "init"
    /\ http_session' = "open"
    /\ http_opens' = http_opens + 1
    /\ BeginCycle

\* Wake, were a cycle started without awaiting the one before it.
WakeEarly ==
    /\ pc \in {"sleeping", "fetching"}
    /\ cycles < MaxCycles
    /\ BeginCycle
    /\ UNCHANGED << http_session, http_opens >>

\* asyncio.sleep returns and the loop calls _check_for_changes again.
Wake ==
    /\ pc = "sleeping"
    /\ cycles < MaxCycles
    /\ BeginCycle
    /\ UNCHANGED << http_session, http_opens >>

\* FetchFailed, were _fetch_page to try the GET again at once.
FetchFailedRetries ==
    /\ pc = "fetching"
    /\ gets_in_cycle' = gets_in_cycle + 1
    /\ error_count' = error_count + 1
    /\ trace' = trace \o << "fetch_error", "fetch" >>
    /\ log' = log \o << << "ERROR", "fetch" >> >>
    /\ UNCHANGED << pc, settings, resources, failures, notifier_session,
                    http_session, previous_content, last_request_time,
                    success_count, html_content, normalized_content,
                    old_content, changed, diff, diff_lines, field_value,
                    extracted, random_offset, wait_time, cancelled, cycles,
                    baseline_before, previous_html, gets_outstanding, sends,
                    sends_in_cycle, ok_cycles, notify_failed >>

\* FetchFailed, were the exception to leave _fetch_page and the loop.
FetchFailedRaises ==
    /\ pc = "fetching"
    /\ pc' = "exited"
    /\ http_session' = "closed"
    /\ http_closes' = http_closes + 1
    /\ gets_outstanding' = gets_outstanding - 1
    /\ trace' = trace \o << "fetch_error" >>
    /\ UNCHANGED << settings, failures, notifier_session, previous_content,
                    last_request_time, success_count, error_count, html_content,
                    normalized_content, old_content, changed, diff, diff_lines,
                    field_value, extracted, log, random_offset, wait_time,
                    cancelled, cycles, baseline_before, previous_html,
                    gets_in_cycle, sends, sends_in_cycle, ok_cycles,
                    notify_failed, http_opens, session_opens, session_closes,
                    close_calls, exit_code >>

\* FetchFailed, were the baseline dropped when the page cannot be fetched.
FetchFailedForgets ==
    /\ pc = "fetching"
    /\ \E sample \in LoopJitter : Sleep(FALSE, sample)
    /\ gets_outstanding' = gets_outstanding - 1
    /\ error_count' = error_count + 1
    /\ fetch_failures' = fetch_failures + 1
    /\ html_content' = None
    /\ previous_content' = None
    /\ trace' = trace \o << "fetch_error" >>
    /\ log' = log \o << << "ERROR", "fetch" >> >>
    /\ UNCHANGED << settings, resources, extract_failures, notifier_session,
                    http_session, last_request_time, success_count,
                    normalized_content, old_content, diff, diff_lines,
                    field_value, extracted, cancelled, cycles, baseline_before,
                    previous_html, gets_in_cycle, sends, sends_in_cycle,
                    ok_cycles, notify_failed >>

\* session.get or raise_for_status raises: _fetch_page counts and logs the
\* error and returns None, _check_for_changes returns False, run sleeps.
FetchFailed ==
    /\ pc = "fetching"
    /\ \E sample \in LoopJitter : Sleep(FALSE, sample)
    /\ gets_outstanding' = gets_outstanding - 1
    /\ error_count' = error_count + 1
    /\ fetch_failures' = fetch_failures + 1
    /\ html_content' = None
    /\ trace' = trace \o << "fetch_error" >>
    /\ log' = log \o << << "ERROR", "fetch" >> >>
    /\ UNCHANGED << settings, resources, extract_failures, notifier_session,
                    http_session, previous_content, last_request_time,
                    success_count, normalized_content, old_content, diff,
                    diff_lines, field_value, extracted, cancelled, cycles,
                    baseline_before, previous_html, gets_in_cycle, sends,
                    sends_in_cycle, ok_cycles, notify_failed >>

\* The GET returns a document: _check_for_changes from "self._success_count += 1"
\* to its return, or to the await of send_notification's POST.
FetchSucceeded(page) ==
    LET found == extract_element(page, element_selector)
        normalized == normalize_html(found.markup)
        verdict == IF found.ok THEN Comparator(previous_content, normalized)
                   ELSE "extract_error"
        hostname == _extract_hostname(url)
        lines == generated_lines(Get(previous_content), normalized, max_lines)
        session == _get_session(notifier_session)
    IN  /\ pc = "fetching"
        /\ gets_outstanding' = gets_outstanding - 1
        /\ html_content' = Some(page)
        /\ extracted' = Some(found)
        /\ success_count' = success_count + 1
        /\ error_count' = CountExtraction(error_count, found.ok)
        /\ extract_failures' = IF found.ok THEN extract_failures
                               ELSE extract_failures + 1
        /\ ok_cycles' = IF found.ok THEN ok_cycles + 1 ELSE ok_cycles
        /\ normalized_content' = IF found.ok THEN Some(normalized) ELSE None
        /\ old_content' = IF verdict = "changed" THEN previous_content ELSE None
        /\ previous_content' =
               CASE verdict = "first" -> Some(normalized)
                 [] verdict = "changed" ->
                        CommitBaseline(Get(previous_content), normalized)
                 [] OTHER -> previous_content
        /\ IF verdict = "changed" /\ notifier
           THEN \* _notify_change: hostname, diff, then send_notification builds
                \* the payload, gets the session and awaits the POST
                /\ diff_lines' = Some(lines)
                /\ diff' = Some(join(<< >>, Get(diff_lines')))
                /\ field_value' = IF Get(diff') # << >>
                                  THEN Some(diff_field(Get(diff'))) ELSE None
                /\ notifier_session' = session.session
                /\ session_opens' = session_opens + session.opened
                /\ sends' = sends + 1
                /\ sends_in_cycle' = sends_in_cycle + 1
                /\ trace' = trace \o << "extract", "normalize", "compare",
                                        "replace_baseline",
                                        IF hostname = None /\ urlparse_raises(url)
                                        THEN "hostname_error" ELSE "hostname",
                                        "diff", "send" >>
                /\ log' = log \o << << "DEBUG", "normalized" >>,
                                    << "INFO", "changed" >> >>
                /\ pc' = "notifying"
                /\ UNCHANGED << changed, random_offset, wait_time >>
           ELSE /\ \E sample \in LoopJitter : Sleep(verdict = "changed", sample)
                /\ trace' = trace \o
                       CASE verdict = "extract_error" ->
                                << "extract", "extract_error" >>
                         [] verdict = "first" ->
                                << "extract", "normalize", "store_baseline" >>
                         [] verdict = "same" ->
                                << "extract", "normalize", "compare" >>
                         [] OTHER ->
                                << "extract", "normalize", "compare",
                                   "replace_baseline", "skip_notify" >>
                /\ log' = log \o
                       CASE verdict = "extract_error" ->
                                << << "ERROR", "extract" >> >>
                         [] verdict = "first" ->
                                << << "DEBUG", "normalized" >>,
                                   << "INFO", "initial" >> >>
                         [] verdict = "same" ->
                                << << "DEBUG", "normalized" >>,
                                   << "INFO", "no_change" >> >>
                         [] OTHER ->
                                << << "DEBUG", "normalized" >>,
                                   << "INFO", "changed" >>,
                                   << "WARNING", "no_notifier" >> >>
                /\ UNCHANGED << diff, diff_lines, field_value, notifier_session,
                                session_opens, sends, sends_in_cycle >>
        /\ UNCHANGED << settings, fetch_failures, http_session,
                        last_request_time, cancelled, cycles, baseline_before,
                        previous_html, gets_in_cycle, notify_failed, http_opens,
                        http_closes, session_closes, close_calls, exit_code >>

\* The POST returns 2xx: "Notification sent to Discord", _check_for_changes
\* returns True, run sleeps.
NotificationDelivered ==
    /\ pc = "notifying"
    /\ \E sample \in LoopJitter : Sleep(TRUE, sample)
    /\ trace' = trace \o << "send_ok" >>
    /\ log' = log \o << << "INFO", "sent" >> >>
    /\ notify_failed' = FALSE
    /\ UNCHANGED << settings, resources, failures, notifier_session,
                    http_session, previous_content, last_request_time,
                    success_count, error_count, html_content,
                    normalized_content, old_content, diff, diff_lines,
                    field_value, extracted, cancelled, cycles, baseline_before,
                    previous_html, gets_outstanding, gets_in_cycle, sends,
                    sends_in_cycle, ok_cycles >>

\* NotificationFailed, were the baseline put back for another attempt.
NotificationFailedReverts ==
    /\ pc = "notifying"
    /\ \E sample \in LoopJitter : Sleep(TRUE, sample)
    /\ trace' = trace \o << "send_error" >>
    /\ log' = log \o << << "ERROR", "notify" >> >>
    /\ notify_failed' = TRUE
    /\ previous_content' = old_content
    /\ UNCHANGED << settings, resources, failures, notifier_session,
                    http_session, last_request_time, success_count, error_count,
                    html_content, normalized_content, old_content, diff,
                    diff_lines, field_value, extracted, cancelled, cycles,
                    baseline_before, previous_html, gets_outstanding,
                    gets_in_cycle, sends, sends_in_cycle, ok_cycles >>

\* NotificationFailed, were the failure counted as an error of the cycle.
NotificationFailedCounts ==
    /\ pc = "notifying"
    /\ \E sample \in LoopJitter : Sleep(TRUE, sample)
    /\ trace' = trace \o << "send_error" >>
    /\ log' = log \o << << "ERROR", "notify" >> >>
    /\ notify_failed' = TRUE
    /\ error_count' = error_count + 1
    /\ UNCHANGED << settings, resources, failures, notifier_session,
                    http_session, previous_content, last_request_time,
                    success_count, html_content, normalized_content,
                    old_content, diff, diff_lines, field_value, extracted,
                    cancelled, cycles, baseline_before, previous_html,
                    gets_outstanding, gets_in_cycle, sends, sends_in_cycle,
                    ok_cycles >>

\* The POST or raise_for_status raises: _notify_change catches and logs it,
\* _check_for_changes returns True, run sleeps.
NotificationFailed ==
    /\ pc = "notifying"
    /\ \E sample \in LoopJitter : Sleep(TRUE, sample)
    /\ trace' = trace \o << "send_error" >>
    /\ log' = log \o << << "ERROR", "notify" >> >>
    /\ notify_failed' = TRUE
    /\ UNCHANGED << settings, resources, failures, notifier_session,
                    http_session, previous_content, last_request_time,
                    success_count, error_count, html_content,
                    normalized_content, old_content, diff, diff_lines,
                    field_value, extracted, cancelled, cycles, baseline_before,
                    previous_html, gets_outstanding, gets_in_cycle, sends,
                    sends_in_cycle, ok_cycles >>

\* Teardown, were the notifier closed by "async with" and by the finally both.
TeardownTwice(raised) ==
    /\ pc' = "exited"
    /\ http_session' = "closed"
    /\ http_closes' = http_closes + 1
    /\ gets_outstanding' = 0
    /\ close_calls' = IF notifier THEN close_calls + 2 ELSE close_calls
    /\ notifier_session' = IF notifier THEN "none" ELSE notifier_session
    /\ session_closes' = IF notifier THEN session_closes + 2
                         ELSE session_closes
    /\ exit_code' = Some(exit_status(raised))

\* An exception leaves the loop at an await: "async with" closes the HTTP
\* session, async_main's finally awaits detector.close(), which closes the
\* notifier if there is one, and main turns the exception into the status.
Teardown(raised) ==
    /\ pc' = "exited"
    /\ http_session' = "closed"
    /\ http_closes' = http_closes + 1
    /\ gets_outstanding' = 0
    /\ close_calls' = IF notifier THEN close_calls + 1 ELSE close_calls
    /\ notifier_session' = IF notifier THEN close(notifier_session).session
                           ELSE notifier_session
    /\ session_closes' = IF notifier
                         THEN session_closes + close(notifier_session).closed
                         ELSE session_closes
    /\ exit_code' = Some(exit_status(raised))

\* Cancel, were _fetch_page and _notify_change to catch BaseException: the
\* interrupt is counted as a failure of the wait and the loop goes on.
CancelAbsorbed ==
    /\ pc \in {"fetching", "notifying", "sleeping"}
    /\ cancelled' = TRUE
    /\ error_count' = error_count + 1
    /\ \E sample \in LoopJitter : Sleep(FALSE, sample)
    /\ UNCHANGED << settings, resources, failures, notifier_session,
                    http_session, previous_content, last_request_time,
                    success_count, html_content, normalized_content,
                    old_content, diff, diff_lines, field_value, extracted, log,
                    cycles, trace, baseline_before, previous_html,
                    gets_outstanding, gets_in_cycle, sends, sends_in_cycle,
                    ok_cycles, notify_failed >>

\* The interrupt (SIGINT) arrives while the task is suspended at an await:
\* CancelledError or KeyboardInterrupt is not an Exception, so no except block
\* of the loop catches it; KeyboardInterrupt reaches main.
Cancel ==
    /\ pc \in {"fetching", "notifying", "sleeping"}
    /\ cancelled' = TRUE
    /\ Teardown("KeyboardInterrupt")
    /\ UNCHANGED << settings, failures, previous_content, last_request_time,
                    success_count, error_count, html_content,
                    normalized_content, old_content, changed, diff, diff_lines,
                    field_value, extracted, log, random_offset, wait_time,
                    cycles, trace, baseline_before, previous_html,
                    gets_in_cycle, sends, sends_in_cycle, ok_cycles,
                    notify_failed, http_opens, session_opens >>

\* The GET returns and the extraction raises an exception that is not a
\* ValueError: "except ValueError" lets it pass, it leaves _check_for_changes
\* and the loop, and main ends with a traceback.
UnexpectedException ==
    /\ pc = "fetching"
    /\ success_count' = success_count + 1
    /\ Teardown("Exception")
    /\ UNCHANGED << settings, failures, previous_content, last_request_time,
                    error_count, html_content, normalized_content, old_content,
                    changed, diff, diff_lines, field_value, extracted, log,
                    random_offset, wait_time, cancelled, cycles, trace,
                    baseline_before, previous_html, gets_in_cycle, sends,
                    sends_in_cycle, ok_cycles, notify_failed, http_opens,
                    session_opens >>

Next ==
    \/ Run
    \/ Wake
    \/ FetchFailed
    \/ \E page \in Pages : FetchSucceeded(page)
    \/ NotificationDelivered
    \/ NotificationFailed
    \/ Cancel

Spec == Init /\ [][Next]_vars

(***************************************************************************)
(* The loop when, besides the failures it handles and the interrupt, an    *)
(* exception of another class may leave it.                                *)
(***************************************************************************)
SpecUnexpected == Init /\ [][Next \/ UnexpectedException]_vars

(***************************************************************************)
(* The loop under the scheduling the event loop gives it: an HTTP          *)
(* exchange ends (the transports time out), and a sleep of finite length   *)
(* ends.  Cancellation may come at any await, or never.                    *)
(***************************************************************************)
SpecLive ==
    /\ Spec
    /\ WF_vars(FetchFailed \/ \E page \in Pages : FetchSucceeded(page))
    /\ WF_vars(NotificationDelivered \/ NotificationFailed)
    /\ WF_vars(Wake)

(***************************************************************************)
(* A DiscordNotifier on its own: send_notification and close, called in    *)
(* any order and any number of times.                                      *)
(***************************************************************************)
InitNotifier ==
    /\ InitState
    /\ element_selector = << << >> >>
    /\ reload_time_ms = 60000
    /\ webhook_url = "hook"
    /\ url = << "h", ":", "/", "/", "e", "/", "p" >>
    /\ notifier = has_notifier(webhook_url)

\* await notifier.send_notification(...): the session is got or created and
\* the POST is awaited, whatever its outcome.
SendNotification ==
    /\ sends < MaxCalls
    /\ sends' = sends + 1
    /\ notifier_session' = _get_session(notifier_session).session
    /\ session_opens' = session_opens + _get_session(notifier_session).opened
    /\ UNCHANGED << pc, settings, failures, http_session, previous_content,
                    last_request_time, success_count, error_count, html_content,
                    normalized_content, old_content, changed, diff, diff_lines,
                    field_value, extracted, log, random_offset, wait_time,
                    cancelled, cycles, trace, baseline_before, previous_html,
                    gets_outstanding, gets_in_cycle, sends_in_cycle, ok_cycles,
                    notify_failed, http_opens, http_closes, session_closes,
                    close_calls, exit_code >>

\* await notifier.close()
CloseNotifier ==
    /\ close_calls < MaxCalls
    /\ close_calls' = close_calls + 1
    /\ notifier_session' = close(notifier_session).session
    /\ session_closes' = session_closes + close(notifier_session).closed
    /\ UNCHANGED << pc, settings, failures, http_session, previous_content,
                    last_request_time, success_count, error_count, html_content,
                    normalized_content, old_content, changed, diff, diff_lines,
                    field_value, extracted, log, random_offset, wait_time,
                    cancelled, cycles, trace, baseline_before, previous_html,
                    gets_outstanding, gets_in_cycle, sends, sends_in_cycle,
                    ok_cycles, notify_failed, http_opens, http_closes,
                    session_opens, exit_code >>

SpecNotifier == InitNotifier /\ [][SendNotification \/ CloseNotifier]_vars

(***************************************************************************)
(* The Diff field of send_notification on its own, for diffs whose length  *)
(* is around the limit.                                                    *)
(***************************************************************************)
\* A string of n characters.
Filler(n) == [i \in 1..n |-> "x"]

\* len(diff): short, long, and every length from 990 to 1050.
DiffLengths == {1, 2000} \cup (990..1050)

InitField ==
    /\ InitAttributes
    /\ element_selector = << << >> >>
    /\ reload_time_ms = 60000
    /\ webhook_url = "hook"
    /\ url = << "h", ":", "/", "/", "e", "/", "p" >>
    /\ notifier = has_notifier(webhook_url)
    /\ html_content = None
    /\ normalized_content = None
    /\ old_content = None
    /\ max_lines = DefaultMaxLines
    /\ diff_lines = None
    /\ extracted = None
    /\ field_value = None
    /\ \E n \in DiffLengths : diff = Some(Filler(n))

\* send_notification: "if diff:" and the field it appends.
RenderDiffField ==
    /\ field_value = None
    /\ Get(diff) # << >>
    /\ field_value' = Some(diff_field(Get(diff)))
    /\ UNCHANGED << pc, settings, resources, failures, notifier_session,
                    http_session, previous_content, last_request_time,
                    success_count, error_count, html_content,
                    normalized_content, old_content, changed, diff, diff_lines,
                    extracted, log, random_offset, wait_time, cancelled, cycles,
                    trace, baseline_before, previous_html, gets_outstanding,
                    gets_in_cycle, sends, sends_in_cycle, ok_cycles,
                    notify_failed >>

SpecField == InitField /\ [][RenderDiffField]_vars

(***************************************************************************)
(* _generate_diff on its own: every pair of texts of up to MaxTextLines    *)
(* lines "a" or "b", and two texts whose last line has no line end, with   *)
(* every max_lines from 0 to more lines than any of their diffs has.       *)
(***************************************************************************)
TextLines == { << "a", "\n" >>, << "b", "\n" >> }

Texts ==
    { join(<< >>, chosen) :
          chosen \in UNION { [1..n -> TextLines] : n \in 0..MaxTextLines } }
        \cup { << "a" >>, << "a", "\n", "b" >> }

LineLimits == 0..(2 * MaxTextLines + 4)

InitDiff ==
    /\ InitAttributes
    /\ element_selector = << << >> >>
    /\ reload_time_ms = 60000
    /\ webhook_url = "hook"
    /\ url = << "h", ":", "/", "/", "e", "/", "p" >>
    /\ notifier = has_notifier(webhook_url)
    /\ html_content = None
    /\ extracted = None
    /\ field_value = None
    /\ diff = None
    /\ diff_lines = None
    /\ \E old \in Texts : old_content = Some(old)
    /\ \E new \in Texts : normalized_content = Some(new)
    /\ max_lines \in LineLimits

\* diff = self._generate_diff(old_content, new_content, max_lines)
GenerateDiff ==
    /\ diff = None
    /\ diff' = Some(_generate_diff(Get(old_content), Get(normalized_content),
                                   max_lines))
    /\ diff_lines' = Some(generated_lines(Get(old_content),
                                          Get(normalized_content), max_lines))
    /\ UNCHANGED << pc, settings, resources, failures, notifier_session,
                    http_session, previous_content, last_request_time,
                    success_count, error_count, html_content,
                    normalized_content, old_content, changed, field_value,
                    extracted, log, random_offset, wait_time, cancelled, cycles,
                    trace, baseline_before, previous_html, gets_outstanding,
                    gets_in_cycle, sends, sends_in_cycle, ok_cycles,
                    notify_failed >>

SpecDiff == InitDiff /\ [][GenerateDiff]_vars

(***************************************************************************)
(* extract_element on its own: the pages of the loop and four more, with   *)
(* every path of up to MaxSegments segments.                               *)
(***************************************************************************)
\* #b before #a and inside it; two #b inside #a, the deeper one first; #a
\* inside #a; #a that holds no #a.
NestedPages ==
    { << Body(<< Div("b", << Text(Hello) >>),
                 Div("a", << Div("b", << Text(Goodbye) >>) >>) >>) >>,
      << Body(<< Div("a", << P(<< Div("b", << Text(Hello) >>) >>),
                             Div("b", << Text(Goodbye) >>) >>) >>) >>,
      << Body(<< Div("a", << Div("a", << Text(Hello) >>) >>) >>) >>,
      << Body(<< Div("a", << Text(Hello) >>) >>) >> }

\* The pieces of a path between its "|": empty, blank, a selector with or
\* without blanks around it.
Segments ==
    { << >>, << " " >>, << "#a" >>, << " ", "#b" >>, << "#b", " " >>,
      << "#c" >> }

Paths == UNION { [1..n -> Segments] : n \in 1..MaxSegments }

InitExtract ==
    /\ InitAttributes
    /\ reload_time_ms = 60000
    /\ webhook_url = "hook"
    /\ url = << "h", ":", "/", "/", "e", "/", "p" >>
    /\ notifier = has_notifier(webhook_url)
    /\ normalized_content = None
    /\ old_content = None
    /\ max_lines = DefaultMaxLines
    /\ diff = None
    /\ diff_lines = None
    /\ field_value = None
    /\ extracted = None
    /\ \E page \in Pages \cup NestedPages : html_content = Some(page)
    /\ element_selector \in Paths

\* extracted_html = extract_element(html_content, self._element_selector)
ExtractElement ==
    /\ extracted = None
    /\ extracted' = Some(extract_element(Get(html_content), element_selector))
    /\ UNCHANGED << pc, settings, resources, failures, notifier_session,
                    http_session, previous_content, last_request_time,
                    success_count, error_count, html_content,
                    normalized_content, old_content, changed, diff, diff_lines,
                    field_value, log, random_offset, wait_time, cancelled,
                    cycles, trace, baseline_before, previous_html,
                    gets_outstanding, gets_in_cycle, sends, sends_in_cycle,
                    ok_cycles, notify_failed >>

SpecExtract == InitExtract /\ [][ExtractElement]_vars

(***************************************************************************)
(* _get_wait_time_ms on its own: every interval with every sample.         *)
(***************************************************************************)
InitWait ==
    /\ InitState
    /\ element_selector = << << >> >>
    /\ webhook_url = ""
    /\ url = << "h", ":", "/", "/", "e", "/", "p" >>
    /\ notifier = has_notifier(webhook_url)
    /\ reload_time_ms \in ReloadTimes

GetWaitTime ==
    /\ pc = "init"
    /\ \E sample \in JitterSamples :
           /\ random_offset' = Some(sample)
           /\ wait_time' = Some(_get_wait_time_ms(reload_time_ms, sample))
    /\ UNCHANGED << pc, settings, resources, failures, notifier_session,
                    http_session, previous_content, last_request_time,
                    success_count, error_count, html_content,
                    normalized_content, old_content, changed, diff, diff_lines,
                    field_value, extracted, log, cancelled, cycles, trace,
                    baseline_before, previous_html, gets_outstanding,
                    gets_in_cycle, sends, sends_in_cycle, ok_cycles,
                    notify_failed >>

SpecWait == InitWait /\ [][GetWaitTime]_vars

(***************************************************************************)
(* The claims.                                                             *)
(***************************************************************************)
Last(s) == s[Len(s)]

\* The text the code derives from a document: extraction, then normalization.
TextOf(page) == normalize_html(extract_element(page, element_selector).markup)

Extracts(page) == extract_element(page, element_selector).ok

\* C1: the first cycle whose fetch and extraction both succeed, however many
\* failed cycles came before, stores the normalized text as the baseline,
\* returns False and sends no notification; until then there is no baseline.
C1_FirstSuccessStoresBaseline ==
    /\ ok_cycles = 0 => previous_content = None /\ sends = 0
    /\ ok_cycles = 1 => previous_content # None /\ sends = 0
    /\ (ok_cycles = 1 /\ normalized_content # None) =>
           /\ normalized_content = Some(TextOf(Get(html_content)))
           /\ previous_content = normalized_content
           /\ changed = Some(FALSE)
           /\ sends_in_cycle = 0
           /\ pc \in {"sleeping", "exited"}

\* Two fetches failed, then the first successful cycle ran and went to sleep.
C1_Witness ==
    /\ pc = "sleeping"
    /\ ok_cycles = 1
    /\ success_count = 1
    /\ error_count = 2
    /\ normalized_content # None
    /\ previous_content = normalized_content

\* A cycle with a baseline whose fetch and extraction succeeded has run its
\* comparison: it sleeps, or its notification is in flight.
Compared ==
    /\ pc \in {"sleeping", "notifying"}
    /\ baseline_before # None
    /\ normalized_content # None

\* C2 as stated: such a cycle returns True and dispatches one notification
\* attempt if and only if the new text differs from the baseline, and returns
\* False and dispatches nothing when they are equal.
C2_ChangeIffOneDispatch ==
    (Compared /\ pc = "sleeping") =>
        LET differs == Get(normalized_content) # Get(baseline_before)
        IN  /\ differs <=> (changed = Some(TRUE) /\ sends_in_cycle = 1)
            /\ ~differs => (changed = Some(FALSE) /\ sends_in_cycle = 0)

\* C2 amended: such a cycle returns True if and only if the new text differs
\* from the baseline; when it differs it dispatches one notification attempt
\* if a notifier is configured and none if not, and when the texts are equal
\* it returns False and dispatches nothing.
C2_ChangeIffDiffers ==
    Compared =>
        LET differs == Get(normalized_content) # Get(baseline_before)
        IN  /\ normalized_content = Some(TextOf(Get(html_content)))
            /\ pc = "notifying" => differs /\ notifier
            /\ pc = "sleeping" => (differs <=> changed = Some(TRUE))
            /\ pc = "sleeping" => (~differs <=> changed = Some(FALSE))
            /\ differs => sends_in_cycle = (IF notifier THEN 1 ELSE 0)
            /\ ~differs => sends_in_cycle = 0

\* A change was detected, one notification went out and the cycle sleeps.
C2_Witness ==
    /\ Compared
    /\ pc = "sleeping"
    /\ Get(normalized_content) # Get(baseline_before)
    /\ changed = Some(TRUE)
    /\ sends_in_cycle = 1

\* C3: whenever send_notification has been invoked and is in flight, the
\* baseline already is the new normalized text and no longer the old one.
C3_BaselineReplacedBeforeDispatch ==
    pc = "notifying" =>
        /\ previous_content = normalized_content
        /\ old_content = baseline_before
        /\ previous_content # old_content
        /\ Last(trace) = "send"

C3_Witness ==
    /\ pc = "notifying"
    /\ sends_in_cycle = 1
    /\ previous_content = normalized_content

\* The step in which a notification attempt ends in failure.
NotificationFails ==
    /\ pc = "notifying"
    /\ ~cancelled'
    /\ Last(trace') = "send_error"

\* The step in which a cycle, begun after a failed notification, has fetched
\* the text that is the baseline.
SameContentAfterFailure ==
    /\ pc = "fetching"
    /\ notify_failed
    /\ normalized_content' = previous_content

\* C4: a failed send_notification is caught: the baseline stays the new text,
\* the cycle returns True and goes to sleep, from where the next cycle can
\* start; a later cycle that fetches the same text sends nothing, returns
\* False and keeps the baseline.
C4_NotificationFailureKeepsBaseline ==
    [][ /\ NotificationFails =>
               /\ previous_content' = previous_content
               /\ previous_content' = normalized_content'
               /\ previous_content' # old_content'
               /\ changed' = Some(TRUE)
               /\ pc' = "sleeping"
               /\ sends' = sends
               /\ error_count' = error_count
        /\ SameContentAfterFailure =>
               /\ sends' = sends
               /\ sends_in_cycle' = 0
               /\ changed' = Some(FALSE)
               /\ previous_content' = previous_content
               /\ pc' = "sleeping" ]_vars

\* After a failed notification a later cycle fetched the same text and sleeps.
C4_Witness ==
    /\ pc = "sleeping"
    /\ notify_failed
    /\ cycles >= 3
    /\ normalized_content = previous_content
    /\ Last(trace) = "compare"
    /\ sends_in_cycle = 0

\* The step in which the GET of a cycle fails.
GetFails ==
    /\ pc = "fetching"
    /\ ~cancelled'
    /\ "fetch_error" \in {trace'[i] : i \in 1..Len(trace')}

\* C5: a cycle whose GET fails counts one error, leaves the success count and
\* the baseline alone, runs no extraction, comparison or notification, has
\* issued exactly one GET and goes to sleep.
C5_FetchFailureSkipsCycle ==
    [][ GetFails =>
            /\ error_count' = error_count + 1
            /\ success_count' = success_count
            /\ previous_content' = previous_content
            /\ trace' = << "fetch", "fetch_error" >>
            /\ html_content' = None
            /\ normalized_content' = None
            /\ sends' = sends
            /\ gets_in_cycle' = 1
            /\ gets_outstanding' = 0
            /\ changed' = Some(FALSE)
            /\ pc' = "sleeping" ]_vars

\* A cycle after the first had its GET fail with a baseline stored.
C5_Witness ==
    /\ pc = "sleeping"
    /\ trace = << "fetch", "fetch_error" >>
    /\ previous_content # None
    /\ error_count = 1
    /\ success_count = 1

\* The step in which the GET succeeds and the selector path matches nothing.
ExtractionFails ==
    /\ pc = "fetching"
    /\ html_content' # None
    /\ ~Extracts(Get(html_content'))

\* C6: a cycle whose GET succeeds and whose extraction fails counts one
\* success and one error, leaves the baseline as it was, compares nothing,
\* sends nothing and goes to sleep.
C6_ExtractionFailureSkipsComparison ==
    [][ ExtractionFails =>
            /\ success_count' = success_count + 1
            /\ error_count' = error_count + 1
            /\ previous_content' = previous_content
            /\ normalized_content' = None
            /\ trace' = << "fetch", "extract", "extract_error" >>
            /\ sends' = sends
            /\ changed' = Some(FALSE)
            /\ pc' = "sleeping" ]_vars

\* The very first cycle failed to extract: no baseline, one success, one error.
C6_Witness ==
    /\ pc = "sleeping"
    /\ Last(trace) = "extract_error"
    /\ previous_content = None
    /\ success_count = 1
    /\ error_count = 1

\* C7: the loop never ends on a fetch, extraction or notification failure:
\* it is left only by cancellation, every step out of a fetch or a
\* notification that is not a cancellation goes on towards the sleep, every
\* cycle reaches the sleep (or is cancelled), and after a sleep another
\* cycle starts (or the task is cancelled).
C7_LoopSurvivesErrors ==
    /\ [](pc = "exited" => cancelled)
    /\ [][ /\ (pc = "fetching" /\ pc' # pc /\ ~cancelled') =>
                  pc' \in {"notifying", "sleeping"}
           /\ (pc = "notifying" /\ pc' # pc /\ ~cancelled') =>
                  pc' = "sleeping"
           /\ (pc = "sleeping" /\ pc' # pc /\ ~cancelled') =>
                  pc' = "fetching" /\ cycles' = cycles + 1 ]_vars
    /\ (pc \in {"fetching", "notifying"}) ~> (pc = "sleeping" \/ cancelled)
    /\ (pc = "sleeping" /\ cycles < MaxCycles) ~> (pc = "fetching" \/ cancelled)

\* A notification failed, then a cycle failed, and the loop sleeps until the
\* cycle after that one.
C7_Witness ==
    /\ pc = "sleeping"
    /\ ~cancelled
    /\ cycles >= 3
    /\ error_count >= 1
    /\ notify_failed

\* C8: the wait is a whole number of milliseconds, at least 100, and is
\* max(100, base + sample) cut to an integer.
C8_WaitTimeFloor ==
    wait_time # None =>
        LET w == Get(wait_time)
            x == reload_time_ms * Scale + Get(random_offset)
        IN  /\ w \in Nat
            /\ w >= 100
            /\ x <= 100 * Scale => w = 100
            /\ x > 100 * Scale => w * Scale <= x /\ x < (w + 1) * Scale

\* A sample so far below the interval that the sum is negative.
C8_Witness ==
    /\ wait_time = Some(100)
    /\ random_offset # None
    /\ reload_time_ms * Scale + Get(random_offset) < 0

\* Two documents that differ only by elements with type="hidden": with those
\* elements taken out of the markup the documents are the same.
WithoutHidden(page) == BeautifulSoup(decompose_hidden(BeautifulSoup(page)))

DifferOnlyByHidden(p, q) == p # q /\ WithoutHidden(p) = WithoutHidden(q)

VisibleText(page) == get_text(WithoutHidden(page))

RECURSIVE Contains(_, _)
Contains(s, part) ==
    IF Len(s) < Len(part) THEN FALSE
    ELSE IF SubSeq(s, 1, Len(part)) = part THEN TRUE
    ELSE Contains(Tail(s), part)

\* The step in which a successful fetch follows a successful fetch, the
\* selector being empty.
NextPage ==
    /\ pc = "fetching"
    /\ IsBlankPath(element_selector)
    /\ previous_html # None
    /\ html_content' # None

\* C9: with an empty selector, a page that differs from the page before only
\* by hidden elements gives the same normalized text and no notification; a
\* page whose visible text differs gives (a notifier being configured)
\* exactly one notification, whose diff names Previous and Current and holds
\* the old and the new text.
C9_HiddenChurnIsNoChange ==
    [][ NextPage =>
            LET p == Get(previous_html)
                q == Get(html_content')
            IN  /\ DifferOnlyByHidden(p, q) =>
                       /\ normalized_content' = previous_content
                       /\ sends' = sends
                       /\ changed' = Some(FALSE)
                /\ (VisibleText(p) # VisibleText(q) /\ notifier) =>
                       /\ sends' = sends + 1
                       /\ diff' # None
                       /\ Contains(Get(diff'), << "--- ", "Previous" >>)
                       /\ Contains(Get(diff'), << "+++ ", "Current" >>)
                       /\ Contains(Get(diff'), Get(previous_content))
                       /\ Contains(Get(diff'), Get(normalized_content')) ]_vars

\* A cycle has run to its end: the last stage it logged is a final one.
CycleComplete ==
    Last(trace) \in {"fetch_error", "extract_error", "store_baseline", "compare",
                     "skip_notify", "send_ok", "send_error"}

\* C10: cycles do not overlap: at most one GET is outstanding, and only while
\* the loop awaits it; during a sleep nothing is in flight and the cycle has
\* run to its end; a cycle begins only from the start of run or from a sleep,
\* with nothing outstanding.
C10_CyclesNeverOverlap ==
    /\ [](/\ gets_outstanding \in {0, 1}
          /\ gets_outstanding = 1 <=> pc = "fetching"
          /\ gets_in_cycle <= 1
          /\ sends_in_cycle <= 1
          /\ pc = "sleeping" => CycleComplete /\ changed # None
          /\ pc = "notifying" => Last(trace) = "send")
    /\ [][ cycles' # cycles =>
               /\ pc \in {"init", "sleeping"}
               /\ gets_outstanding = 0
               /\ cycles' = cycles + 1
               /\ pc' = "fetching" ]_vars

\* A cycle that fetched, compared and notified has ended and the loop sleeps.
C10_Witness ==
    /\ pc = "sleeping"
    /\ cycles >= 2
    /\ Last(trace) = "send_ok"
    /\ gets_outstanding = 0

\* C11 as stated: at the exit each of the two sessions was acquired once and
\* released once, and none is open.
C11_EachSessionAcquiredOnce ==
    pc = "exited" =>
        /\ http_opens = 1 /\ http_closes = 1 /\ http_session = "closed"
        /\ notifier => session_opens = 1 /\ session_closes = 1
        /\ notifier_session # "open"

\* C11 amended: the HTTP session is acquired once, when run is entered, and
\* the notifier's session at most once, by the first notification sent; no
\* session is released before the exit or more often than it was acquired;
\* at the exit, by interrupt or by an exception of another class, the HTTP
\* session was released once, the notifier's session as often as it was
\* acquired, and none is open.
C11_SessionsReleasedOnce ==
    /\ http_opens <= 1 /\ http_closes <= http_opens
    /\ session_opens <= 1 /\ session_closes <= session_opens
    /\ session_opens = (IF sends > 0 THEN 1 ELSE 0)
    /\ pc \in {"fetching", "notifying", "sleeping"} =>
           /\ http_opens = 1 /\ http_closes = 0 /\ http_session = "open"
           /\ session_closes = 0
           /\ notifier_session = (IF sends > 0 THEN "open" ELSE "none")
    /\ pc = "exited" =>
           /\ http_opens = 1 /\ http_closes = 1 /\ http_session = "closed"
           /\ session_closes = session_opens
           /\ notifier_session # "open"
           /\ close_calls = (IF notifier THEN 1 ELSE 0)

\* An exception of another class ended the loop after a notification was sent:
\* both sessions were acquired and released.
C11_Witness ==
    /\ pc = "exited"
    /\ ~cancelled
    /\ exit_code = Some(1)
    /\ session_opens = 1
    /\ session_closes = 1
    /\ http_closes = 1

\* C12: an interrupt that arrives while the loop is suspended (in the sleep, in
\* the GET or in the delivery of a notification) ends that wait and the loop
\* in the same step: it is counted and logged neither as a fetch error nor as
\* a notification error, no stage of the cycle runs after it, no cycle starts
\* after it, the teardown closes what is open, and the exit status is 0.
C12_InterruptEndsLoop ==
    /\ [][ (cancelled' /\ ~cancelled) =>
               /\ pc \in {"sleeping", "fetching", "notifying"}
               /\ pc' = "exited"
               /\ error_count' = error_count
               /\ success_count' = success_count
               /\ log' = log
               /\ trace' = trace
               /\ cycles' = cycles
               /\ previous_content' = previous_content
               /\ gets_outstanding' = 0
               /\ http_session' = "closed"
               /\ notifier_session' # "open"
               /\ exit_code' = Some(0) ]_vars
    /\ [][cancelled => UNCHANGED vars]_vars
    /\ [](cancelled => pc = "exited" /\ exit_code = Some(0))

\* The interrupt arrived while a notification was being delivered.
C12_Witness ==
    /\ cancelled
    /\ pc = "exited"
    /\ Last(trace) = "send"
    /\ exit_code = Some(0)
    /\ session_closes = 1

\* C13: a call of DiscordNotifier.close on a notifier with no session (none
\* was opened yet, or it was closed since) changes nothing; a call on a
\* notifier with an open session closes that session and clears it; so no
\* session is closed more often than it was opened, however often close is
\* called.
C13_CloseIsIdempotent ==
    /\ [][ close_calls' = close_calls + 1 =>
               IF notifier_session = "open"
               THEN /\ notifier_session' = "none"
                    /\ session_closes' = session_closes + 1
               ELSE /\ notifier_session' = notifier_session
                    /\ session_closes' = session_closes ]_vars
    /\ [](session_closes <= session_opens)
    /\ [](session_opens - session_closes =
              (IF notifier_session = "open" THEN 1 ELSE 0))
    /\ [](sends = 0 => session_closes = 0 /\ notifier_session = "none")

\* One session was opened and close was called three times: it was closed once.
C13_Witness ==
    /\ sends = 1
    /\ close_calls = 3
    /\ session_opens = 1
    /\ session_closes = 1
    /\ notifier_session = "none"

\* C14: the value of the Diff field is within the limit of 1024 characters of
\* a field, and it holds, between the fences, a diff of at most 1024
\* characters as it is and a longer one as its first 1021 characters and "...".
C14_DiffFieldWithinLimit ==
    field_value # None =>
        LET d == Get(diff)
            shown == IF Len(d) <= DiscordFieldLimit THEN d
                     ELSE SubSeq(d, 1, DiscordFieldLimit - 3)
                              \o << ".", ".", "." >>
        IN  /\ Len(Get(field_value)) <= DiscordFieldLimit
            /\ Get(field_value) =
                   << Grave, Grave, Grave, "d", "i", "f", "f", "\n" >>
                       \o shown \o << "\n", Grave, Grave, Grave >>

\* The lines of a string: one more than its line ends.
LineCount(s) == 1 + Cardinality({i \in 1..Len(s) : s[i] = "\n"})

\* C15: the diff lines that _generate_diff joins are at most max_lines + 1;
\* the marker is among them exactly when the whole diff has more than
\* max_lines lines, and then it is the last one, after the first max_lines
\* lines of the whole diff; otherwise they are the whole diff.  For
\* max_lines >= 1 the joined string, cut at its line ends, has at most
\* max_lines + 1 lines too.
C15_DiffWithinMaxLines ==
    diff_lines # None =>
        LET whole == unified_diff(splitlines(Get(old_content)),
                                  splitlines(Get(normalized_content)))
            out == Get(diff_lines)
            marker == truncation_marker(max_lines)
            marked == {i \in 1..Len(out) : out[i] = marker}
        IN  /\ Len(out) <= max_lines + 1
            /\ (marked # {}) <=> (Len(whole) > max_lines)
            /\ marked # {} =>
                   /\ marked = {Len(out)}
                   /\ Len(out) = max_lines + 1
                   /\ SubSeq(out, 1, max_lines) = SubSeq(whole, 1, max_lines)
            /\ marked = {} => out = whole
            /\ Get(diff) = join(<< >>, out)
            /\ max_lines >= 1 => LineCount(Get(diff)) <= max_lines + 1

\* A diff of two hunk lines more than max_lines, cut after its first hunk
\* lines.
C15_Witness ==
    /\ diff_lines # None
    /\ max_lines >= 4
    /\ Len(Get(diff_lines)) = max_lines + 1
    /\ Last(Get(diff_lines)) = truncation_marker(max_lines)
    /\ Len(unified_diff(splitlines(Get(old_content)),
                        splitlines(Get(normalized_content)))) >= max_lines + 2

\* The stripped, non-empty segments of a path, in order.
NonEmptySegments(path) ==
    SelectSeq([i \in 1..Len(path) |-> strip(path[i])], LAMBDA x : x # << >>)

\* The first node of ds, in document order, that matches the selector.
FirstIn(ds, selector) ==
    LET hits == {i \in 1..Len(ds) : Matches(ds[i], selector)}
    IN  IF hits = {} THEN None
        ELSE Some(ds[CHOOSE i \in hits : \A j \in hits : i <= j])

\* hit[i] is the match of segment i among the descendants of the match of
\* segment i - 1 (of the document for the first), if all before it matched.
Hits(html, segments) ==
    LET hit[i \in 0..Len(segments)] ==
            IF i = 0 THEN Some([kids |-> BeautifulSoup(html)])
            ELSE IF hit[i - 1] = None THEN None
            ELSE FirstIn(descendants(Get(hit[i - 1]).kids), segments[i])
    IN  hit

\* C16: for a path with a non-empty segment, extract_element returns the
\* markup of the match of the last segment when every segment has a match in
\* the subtree of the match before it; otherwise it fails, with the first
\* segment that has no match and the whole path, and with no markup.
C16_SegmentsNarrowInOrder ==
    (extracted # None /\ NonEmptySegments(element_selector) # << >>) =>
        LET segments == NonEmptySegments(element_selector)
            hit == Hits(Get(html_content), segments)
            missed == {i \in 1..Len(segments) : hit[i] = None}
            result == Get(extracted)
        IN  IF missed = {}
            THEN /\ result.ok
                 /\ result.markup = << Get(hit[Len(segments)]) >>
            ELSE /\ ~result.ok
                 /\ result.markup = << >>
                 /\ result.selector =
                        segments[CHOOSE i \in missed : \A j \in missed : i <= j]
                 /\ result.path = element_selector

\* The path "#a| #b" on the page where #b comes before #a and inside it: the
\* result is the #b inside #a.
C16_Witness ==
    /\ extracted # None
    /\ element_selector = << << "#a" >>, << " ", "#b" >> >>
    /\ Get(extracted).ok
    /\ Get(extracted).markup = << Div("b", << Text(Goodbye) >>) >>
    /\ first_match(descendants(BeautifulSoup(Get(html_content))), << "#b" >>)
           = Some(Div("b", << Text(Hello) >>))

\* The stages of the current cycle that failed.
FailedStages ==
    {i \in 1..Len(trace) :
         trace[i] \in {"fetch_error", "extract_error", "send_error",
                       "hostname_error"}}

\* The records of the current cycle at ERROR severity.
ErrorRecords == {i \in 1..Len(log) : log[i][1] = "ERROR"}

Logged(record) == \E i \in 1..Len(log) : log[i] = record

Ran(stage) == \E i \in 1..Len(trace) : trace[i] = stage

\* C17: every failure of the current cycle has its record at ERROR severity:
\* a fetch failure, an extraction failure, a failure to deliver the
\* notification and a failure to derive the hostname from the URL.
C17_EveryFailureLogged ==
    /\ Ran("fetch_error") => Logged(<< "ERROR", "fetch" >>)
    /\ Ran("extract_error") => Logged(<< "ERROR", "extract" >>)
    /\ Ran("send_error") => Logged(<< "ERROR", "notify" >>)
    /\ Ran("hostname_error") => Logged(<< "ERROR", "hostname" >>)
    /\ Cardinality(ErrorRecords) >= Cardinality(FailedStages)

\* C18: with an empty webhook URL there is no notifier, and no notification
\* is ever built or sent and no delivery session opened; a cycle whose fetch
\* and extraction succeed still ends with the new text as the baseline and
\* returns True exactly when the text differs from the baseline before it,
\* and then the change is reported in the log, with the warning that no
\* notifier is configured.
C18_NoWebhookNoNotification ==
    /\ [](webhook_url = "" =>
              /\ ~notifier
              /\ sends = 0
              /\ session_opens = 0
              /\ notifier_session = "none"
              /\ field_value = None
              /\ pc # "notifying")
    /\ [][ (webhook_url = "" /\ pc = "fetching" /\ normalized_content' # None)
               =>
               /\ pc' = "sleeping"
               /\ previous_content' = normalized_content'
               /\ changed' = Some(/\ previous_content # None
                                  /\ previous_content # normalized_content')
               /\ changed' = Some(TRUE) =>
                      /\ \E i \in 1..Len(log') : log'[i] = << "INFO", "changed" >>
                      /\ log'[Len(log')] = << "WARNING", "no_notifier" >>
           ]_vars

\* Without a webhook a change was detected and the baseline replaced.
C18_Witness ==
    /\ webhook_url = ""
    /\ pc = "sleeping"
    /\ changed = Some(TRUE)
    /\ previous_content = normalized_content
    /\ previous_content # baseline_before
    /\ Logged(<< "WARNING", "no_notifier" >>)
    /\ sends = 0

\* The cycles that have returned.
CompletedCycles == IF pc \in {"fetching", "notifying"} THEN cycles - 1 ELSE cycles

\* C19: a cycle whose GET fails adds one to the error count only; a cycle
\* whose GET succeeds adds one to the success count, and one to the error
\* count if the extraction fails; no other step changes a counter, the end of
\* a notification (delivered or failed) least of all.  So between cycles the
\* success count is the number of cycles whose GET succeeded, the error count
\* the number of cycles whose GET or extraction failed, each is at most the
\* number n of cycles completed and their sum at least n.
C19_CountersCountCycles ==
    /\ [][ /\ success_count' >= success_count
           /\ error_count' >= error_count
           /\ (pc = "fetching" /\ pc' # "exited" /\ html_content' = None) =>
                  /\ success_count' = success_count
                  /\ error_count' = error_count + 1
           /\ (pc = "fetching" /\ html_content' # None) =>
                  /\ success_count' = success_count + 1
                  /\ error_count' = error_count
                         + (IF Get(extracted').ok THEN 0 ELSE 1)
           /\ pc # "fetching" =>
                  /\ success_count' = success_count
                  /\ error_count' = error_count ]_vars
    /\ [](pc \in {"init", "sleeping"} =>
              /\ CompletedCycles = ok_cycles + extract_failures + fetch_failures
              /\ success_count = ok_cycles + extract_failures
              /\ error_count = fetch_failures + extract_failures
              /\ success_count <= CompletedCycles
              /\ error_count <= CompletedCycles
              /\ success_count + error_count >= CompletedCycles)

\* Three cycles: one failed in the GET, one in the extraction, one succeeded.
C19_Witness ==
    /\ pc = "sleeping"
    /\ cycles = 3
    /\ fetch_failures = 1
    /\ extract_failures = 1
    /\ success_count = 2
    /\ error_count = 2

\* C20: the baseline is absent exactly as long as no cycle has fetched and
\* extracted; the step that ends the fetch of a cycle leaves it equal to the
\* normalized text of that cycle's extract if fetch and extraction succeeded,
\* and as it was if either failed; no other step changes it, and once present
\* it is never absent.  So at the end of every cycle it is the normalized
\* text of the last cycle that fetched and extracted.
C20_BaselineIsLastGoodText ==
    /\ [](previous_content = None <=> ok_cycles = 0)
    /\ [](pc = "sleeping" /\ normalized_content # None =>
              previous_content = normalized_content)
    /\ [](pc = "sleeping" /\ normalized_content = None =>
              previous_content = baseline_before)
    /\ [][ /\ previous_content # None => previous_content' # None
           /\ pc # "fetching" => previous_content' = previous_content
           /\ (pc = "fetching" /\ pc' # "exited") =>
                  IF html_content' # None /\ Get(extracted').ok
                  THEN /\ ok_cycles' = ok_cycles + 1
                       /\ previous_content' =
                              Some(normalize_html(Get(extracted').markup))
                  ELSE /\ ok_cycles' = ok_cycles
                       /\ previous_content' = previous_content ]_vars

\* Two cycles fetched and extracted and the third failed: the baseline is the
\* text of the second.
C20_Witness ==
    /\ pc = "sleeping"
    /\ cycles = 3
    /\ ok_cycles = 2
    /\ normalized_content = None
    /\ previous_content # None
    /\ previous_content = baseline_before
    /\ previous_html # None
    /\ Extracts(Get(previous_html))
    /\ previous_content = Some(TextOf(Get(previous_html)))

\* The record is in the log of the cycle as the step leaves it.
LoggedAfter(record) == \E i \in 1..Len(log') : log'[i] = record

====
